---- MODULE Spec2Model ----
(***************************************************************************)
(* A model of lung_segmentation/crop.py: class ImageCropping with its two  *)
(* operations crop_with_mask and crop_wo_mask.                             *)
(*                                                                         *)
(* What is abstracted: the voxel intensities.  Thresholding, the           *)
(* connected-component filter and the rotation are library calls whose     *)
(* result, for one slice, is the set of retained foreground pixels.  The   *)
(* model draws that result (the set of foreground x coordinates and the    *)
(* largest foreground y) nondeterministically for every slice scanned;     *)
(* everything the code computes from it is modelled as the code does it.   *)
(* A Python exception is modelled by pc = "raised" with its type in err.   *)
(* Voxel spacings are positive integers, so int(c / space) is c \div space.*)
(***************************************************************************)
EXTENDS Integers, Sequences, FiniteSets

VARIABLES
    pc,               \* position in the method being executed
    err,              \* type of the exception that ended the call, or "none"
    shape,            \* im.shape / imageData.shape : <<dimX, dimY, dimZ>>
    spacing,          \* <<space_x, space_y, space_z>>
    accurate_naming,  \* argument of crop_wo_mask
    process,          \* crop_wo_mask local, tested at line 213
    proccess,         \* crop_wo_mask local, assigned at line 210
    indY,             \* crop_wo_mask local; None until a foreground is seen
    mean_Z,
    n_mice_detected,  \* the set of the counts appended to the list
    angle,
    counter,
    offset_i,         \* position of the for loop over [20, 10, 0, -10, -15]
    x,                \* foreground x coordinates of the slice last filtered
    xx,               \* edge list; Unbound before its first assignment
    image_names,
    names2remove,
    hole_found,
    missing_at_edge,
    mouse_distances,
    loop_i,           \* index of the loop under way (hole loop, crop loop)
    written,          \* files written by crop_wo_mask, in order
    out,              \* list returned by crop_wo_mask
    maskOnes,         \* crop_with_mask: the voxels where maskData == 1
    maskMax,
    maskMin,
    imageOutname,
    maskOutname,
    maskFiles,        \* files written by crop_with_mask
    scans,            \* history: scans of the five offsets completed
    rotations,        \* history: rotations applied
    retained,         \* history: a slice of the current scan kept foreground
    mid_xx,           \* history: the edge list found at offset 0 of the
                      \* current scan; Unbound if none was
    scan_counts,      \* history: the counts recorded by the current scan
    im_rot,           \* the angles by which the volume in im has been
                      \* rotated since it was read from the file, in order
    warned            \* the odd-edges warning of line 220 was logged

vars == <<pc, err, shape, spacing, accurate_naming, process, proccess, indY, mean_Z,
          n_mice_detected, angle, counter, offset_i, x, xx, image_names,
          names2remove, hole_found, missing_at_edge, mouse_distances, loop_i,
          written, out, maskOnes, maskMax, maskMin, imageOutname, maskOutname,
          maskFiles, scans, rotations, retained, mid_xx, scan_counts, im_rot,
          warned>>

\* Python's None where an index is expected: no index is negative
None == -1

\* a local name not yet assigned, where a list is expected: no list of the
\* program holds a negative number
Unbound == <<-1>>

\* a filename that is None
NoName == "None"

(***************************************************************************)
(* Program constants.                                                      *)
(***************************************************************************)
MOUSE_NAMES == <<"mouse_01", "mouse_02", "mouse_03",
                 "mouse_04", "mouse_05", "mouse_06">>

OFFSETS == <<20, 10, 0, -10, -15>>

MAX_RETRIES == 8

ANGLE_STEP == 2

BATCH_SIZE == 6

MEAN_Z_SHIFT == 10

FIRST_EDGE_MM == 63

SIZE_X_MM == 17

SIZE_Y_MM == 30

SIZE_Z_MM == 45

MASK_MARGIN_MM == 10

(***************************************************************************)
(* Bounds of the model.                                                    *)
(***************************************************************************)
\* width (x extent) of the volumes of the detection-loop specification
LoopDimX == 5

\* width of the volumes of the naming specification
NamingDimX == 17

\* width of the slices of the edge-extraction specification
EdgeDimX == 8

\* edge size of the (cubic) volumes of the mask-guided specification
MaskDim == 3

\* width of the volumes of the batch specification
BatchDimX == 32

\* largest width of a subject block of the batch specification
MaxBlockWidth == 3

\* largest number of empty columns between two slots of the batch
\* specification
MaxBlockGap == 3

(***************************************************************************)
(* Helpers: Python / numpy primitives.                                     *)
(***************************************************************************)
SetMin(S) == CHOOSE m \in S : \A e \in S : m <= e

SetMax(S) == CHOOSE m \in S : \A e \in S : m >= e

RECURSIVE Sorted(_)
\* sorted(list(set(...))) of a finite set of integers
Sorted(S) == IF S = {} THEN <<>>
             ELSE LET m == SetMin(S) IN <<m>> \o Sorted(S \ {m})

SeqRange(s) == {s[k] : k \in 1..Len(s)}

\* int(np.round(p / q)) for p >= 0, q > 0: numpy rounds halves to even
RoundDiv(p, q) ==
    LET f == p \div q
        r == p % q
    IN  IF 2 * r < q THEN f
        ELSE IF 2 * r > q THEN f + 1
        ELSE IF f % 2 = 0 THEN f ELSE f + 1

\* list.remove(v): the list without the first occurrence of v
RemoveFirst(s, v) ==
    LET k == CHOOSE j \in 1..Len(s) : s[j] = v /\ \A h \in 1..(j-1) : s[h] /= v
    IN  SubSeq(s, 1, k - 1) \o SubSeq(s, k + 1, Len(s))

RECURSIVE RemoveAll(_, _)
\* for ind in names2remove: image_names.remove(ind), where every removal
\* finds its element (the caller checks CanRemoveAll first)
RemoveAll(names, rem) ==
    IF rem = <<>> THEN names
    ELSE RemoveAll(RemoveFirst(names, Head(rem)), Tail(rem))

RECURSIVE CanRemoveAll(_, _)
\* no list.remove of the loop raises ValueError
CanRemoveAll(names, rem) ==
    IF rem = <<>> THEN TRUE
    ELSE /\ Head(rem) \in SeqRange(names)
         /\ CanRemoveAll(RemoveFirst(names, Head(rem)), Tail(rem))

(***************************************************************************)
(* crop_wo_mask: the quantities derived from the header (lines 127-143).   *)
(***************************************************************************)
dimX == shape[1]

dimY == shape[2]

dimZ == shape[3]

min_first_edge == FIRST_EDGE_MM \div spacing[1]

min_last_edge == dimX - (FIRST_EDGE_MM \div spacing[1])

min_size_x == IF SIZE_X_MM \div spacing[1] > dimX THEN dimX
              ELSE SIZE_X_MM \div spacing[1]

min_size_y == IF SIZE_Y_MM \div spacing[2] > dimY THEN dimY
              ELSE SIZE_Y_MM \div spacing[2]

min_size_z == IF SIZE_Z_MM \div spacing[3] > dimZ THEN dimZ
              ELSE SIZE_Z_MM \div spacing[3]

\* indY after lines 124 and 133-136, for a volume of shape sh and spacing sp
InitialIndY(sh, sp) == IF SIZE_Y_MM \div sp[2] > sh[2] THEN sh[2] ELSE None

\* int(np.ceil(dimZ / 2)) for a volume of depth dz
InitialMeanZ(dz) == (dz + 1) \div 2

(***************************************************************************)
(* Edge extraction (lines 175-190).                                        *)
(***************************************************************************)
\* x.any(): some foreground x coordinate is non-zero
XAny(fx) == \E e \in fx : e /= 0

RECURSIVE WalkUniq(_, _, _)
\* the loop of lines 182-185 from 1-based position k on, appending to acc
WalkUniq(uniq, k, acc) ==
    IF k > Len(uniq) THEN acc
    ELSE IF uniq[k] /= uniq[k - 1] + 1
         THEN WalkUniq(uniq, k + 1, acc \o <<uniq[k - 1], uniq[k]>>)
         ELSE WalkUniq(uniq, k + 1, acc)

\* mutant of EdgeList: the last coordinate is not appended (line 186)
EdgeListOpenEnded(fx) ==
    LET uniq == Sorted(fx)
    IN  Sorted(SeqRange(WalkUniq(uniq, 2, <<uniq[1]>>)))

\* lines 179-187: the edge list of a non-empty foreground set
EdgeList(fx) ==
    LET uniq == Sorted(fx)
        walked == WalkUniq(uniq, 2, <<uniq[1]>>) \o <<uniq[Len(uniq)]>>
    IN  Sorted(SeqRange(walked))

(***************************************************************************)
(* Inputs of the detection-loop specification.                             *)
(***************************************************************************)
\* calls <<shape, spacing, accurate_naming>>, shape = <<dimX, dimY, dimZ>>
\* and spacing = <<space_x, space_y, space_z>>.  The third volume is less
\* tall than the minimum subject height (line 134), the fourth cannot hold
\* the offset +20.  Every volume is tall enough for a column one voxel wide
\* to pass the size filter of lines 170-174 (dimY - 1 >= 100 / space_x, and
\* the rows kept by line 162, min_size_y + 10, are as many), so that every
\* set of x coordinates is the foreground of some slice.
LoopCalls == {<<<<LoopDimX, 14, 42>>, <<8, 10, 9>>, TRUE>>,
              <<<<LoopDimX, 14, 42>>, <<8, 10, 9>>, FALSE>>,
              <<<<LoopDimX, 7, 42>>, <<17, 3, 1>>, TRUE>>,
              <<<<LoopDimX, 14, 30>>, <<8, 10, 9>>, TRUE>>}

\* the state of crop_wo_mask when the while loop is first entered (line 153)
EnterLoop(sh, sp, acc) ==
    /\ pc = "scan"
    /\ err = "none"
    /\ shape = sh
    /\ spacing = sp
    /\ accurate_naming = acc
    /\ process = TRUE
    /\ proccess = "Unbound"
    /\ indY = InitialIndY(sh, sp)
    /\ mean_Z = InitialMeanZ(sh[3])
    /\ n_mice_detected = {}
    /\ angle = 0
    /\ counter = 0
    /\ offset_i = 1
    /\ x = {}
    /\ xx = Unbound
    /\ image_names = <<>>
    /\ names2remove = <<>>
    /\ hole_found = 0
    /\ missing_at_edge = FALSE
    /\ mouse_distances = <<>>
    /\ loop_i = 0
    /\ written = <<>>
    /\ out = <<>>
    /\ scans = 0
    /\ rotations = 0
    /\ retained = FALSE
    /\ mid_xx = Unbound
    /\ scan_counts = n_mice_detected
    /\ im_rot = <<>>
    /\ warned = FALSE

\* the variables of crop_with_mask, untouched by crop_wo_mask
MaskIdle ==
    /\ maskOnes = {}
    /\ maskMax = 0
    /\ maskMin = 0
    /\ imageOutname = "image_cropped"
    /\ maskOutname = NoName
    /\ maskFiles = {}

Init ==
    /\ \E call \in LoopCalls : EnterLoop(call[1], call[2], call[3])
    /\ MaskIdle

maskVars == <<maskOnes, maskMax, maskMin, imageOutname, maskOutname, maskFiles>>

inputVars == <<shape, spacing, accurate_naming>>

namingVars == <<image_names, names2remove, hole_found, missing_at_edge,
                mouse_distances>>

loopVars == <<process, proccess, indY, mean_Z, n_mice_detected, angle, counter,
              offset_i, xx, scans, rotations, retained, mid_xx, scan_counts,
              im_rot, warned>>

Raise(e) ==
    /\ pc' = "raised"
    /\ err' = e

(***************************************************************************)
(* The detection loop (lines 153-211).                                     *)
(***************************************************************************)
\* im[:, :, k] of a volume of depth dz: numpy accepts -dz <= k < dz
ValidIndex(k, dz) == -dz <= k /\ k < dz

\* the foreground x coordinates a filtered slice of the loop volumes may hold
LoopSlices == SUBSET (0..(LoopDimX - 1))

\* what lines 175-187 make of a slice whose foreground x coordinates are
\* fx: whether any pixel was kept, x.any(), and the edge list if x.any()
SliceResult(fx) ==
    [kept |-> fx /= {},
     any |-> XAny(fx),
     edges |-> IF XAny(fx) THEN EdgeList(fx) ELSE <<>>]

\* the results of lines 175-187 over the slices of the loop volumes
LoopSliceResults == {SliceResult(fx) : fx \in LoopSlices}

\* the largest foreground y a slice may report, the foreground reaching the
\* last row or the one before: it is read only at offset 0 while indY is
\* None (line 177)
YMaxChoices(off) ==
    IF indY = None /\ off = 0 THEN {dimY - 2, dimY - 1} ELSE {dimY - 1}

\* One iteration of the for loop of line 156: the slice at mean_Z + offset is
\* thresholded and filtered (lines 157-175, drawn here as r and ymax) and
\* its edges and subject count are recorded (lines 176-190).
\* n_mice_detected is kept as the set of the values appended to the list:
\* the list is only ever read through set(n_mice_detected) (line 191).
\* scan_counts starts afresh with the first slice of the for loop.
ScanOffset ==
    /\ pc = "scan"
    /\ offset_i <= Len(OFFSETS)
    /\ IF ~ValidIndex(mean_Z + OFFSETS[offset_i], dimZ)
       THEN /\ Raise("IndexError")
            /\ UNCHANGED <<loopVars>>
       ELSE /\ \E r \in LoopSliceResults, ymax \in YMaxChoices(OFFSETS[offset_i]) :
                 LET count == IF r.any THEN Len(r.edges) \div 2 ELSE 0
                 IN  /\ IF r.any
                        THEN /\ indY' = IF indY = None /\ OFFSETS[offset_i] = 0
                                        THEN ymax ELSE indY
                             /\ xx' = r.edges
                        ELSE UNCHANGED <<indY, xx>>
                     /\ n_mice_detected' = n_mice_detected \cup {count}
                     /\ scan_counts' = (IF offset_i = 1 THEN {} ELSE scan_counts)
                                       \cup {count}
                     /\ mid_xx' = IF OFFSETS[offset_i] /= 0 THEN mid_xx
                                  ELSE IF r.any THEN r.edges ELSE Unbound
                     /\ retained' = (retained \/ r.kept)
            /\ offset_i' = offset_i + 1
            /\ UNCHANGED <<pc, err, process, proccess, mean_Z, angle, counter,
                           scans, rotations, im_rot, warned>>
    /\ UNCHANGED <<inputVars, namingVars, maskVars, x, loop_i, written, out>>

\* line 191: the counts agree, or agree up to a tolerated zero
Consistent(counts) ==
    \/ Cardinality(counts) = 1
    \/ Cardinality(counts) = 2 /\ 0 \in counts

\* lines 191-192: the loop exits with not_correct = False
Stable ==
    /\ pc = "scan"
    /\ offset_i > Len(OFFSETS)
    /\ Consistent(n_mice_detected)
    /\ pc' = "process"
    /\ scans' = scans + 1
    /\ UNCHANGED <<err, process, proccess, indY, mean_Z, n_mice_detected, angle,
                   counter, offset_i, xx, rotations, retained, mid_xx,
                   scan_counts, im_rot, warned>>
    /\ UNCHANGED <<inputVars, namingVars, maskVars, x, loop_i, written, out>>

\* mutant of RetryAllowed: the budget test is off by one
RetryAllowedInclusive(c) == c <= MAX_RETRIES

\* line 193: a further rotation is allowed
RetryAllowed(c) == c < MAX_RETRIES

\* mean_Z after lines 203-205, c being the counter already incremented
ShiftMeanZ(mz, c) == IF c % 2 = 0 THEN mz - MEAN_Z_SHIFT ELSE mz

\* mutant of ResetCounts: the counts of the scans before are kept
KeepCounts(counts) == counts

\* line 199: n_mice_detected = []
ResetCounts(counts) == {}

\* mutant of Reloaded: the volume in im is rotated as it is
NotReloaded(rot) == rot

\* line 201 (and 214): im is read again from the file, whatever rotations
\* rot it had undergone
Reloaded(rot) == <<>>

\* lines 201-202 (and 214-216): the volume is read again and, if asked,
\* rotated by the angle a
ReloadAndRotate(rot, a, asked) ==
    IF asked THEN Append(Reloaded(rot), a) ELSE Reloaded(rot)

\* lines 193-205: the volume is reloaded and rotated, the scan starts again
Rotate ==
    /\ pc = "scan"
    /\ offset_i > Len(OFFSETS)
    /\ ~Consistent(n_mice_detected)
    /\ RetryAllowed(counter)
    /\ angle' = angle - ANGLE_STEP
    /\ n_mice_detected' = ResetCounts(n_mice_detected)
    /\ indY' = None
    /\ im_rot' = ReloadAndRotate(im_rot, angle - ANGLE_STEP, TRUE)
    /\ mid_xx' = Unbound
    /\ counter' = counter + 1
    /\ mean_Z' = ShiftMeanZ(mean_Z, counter + 1)
    /\ offset_i' = 1
    /\ scans' = scans + 1
    /\ rotations' = rotations + 1
    /\ retained' = FALSE
    /\ UNCHANGED <<pc, err, process, proccess, xx, scan_counts, warned>>
    /\ UNCHANGED <<inputVars, namingVars, maskVars, x, loop_i, written, out>>

\* lines 206-211: the retry budget is spent; the flag is written to proccess
GiveUp ==
    /\ pc = "scan"
    /\ offset_i > Len(OFFSETS)
    /\ ~Consistent(n_mice_detected)
    /\ ~RetryAllowed(counter)
    /\ proccess' = "False"
    /\ pc' = "process"
    /\ scans' = scans + 1
    /\ UNCHANGED <<err, process, indY, mean_Z, n_mice_detected, angle, counter,
                   offset_i, xx, rotations, retained, mid_xx, scan_counts,
                   im_rot, warned>>
    /\ UNCHANGED <<inputVars, namingVars, maskVars, x, loop_i, written, out>>

(***************************************************************************)
(* After the loop: reload, parity recovery (lines 213-225).                *)
(***************************************************************************)
\* mutant of FixParity: an odd edge list loses its first edge
FixParityAtFront(edges) ==
    IF Len(edges) % 2 /= 0 THEN Tail(edges) ELSE edges

\* lines 219-225: an odd edge list loses its last edge
FixParity(edges) ==
    IF Len(edges) % 2 /= 0 THEN RemoveFirst(edges, edges[Len(edges)])
    ELSE edges

\* lines 213-226: the test of process, the reload and rotation of the
\* volume by the final angle, and the parity recovery
LoadAndFixParity ==
    /\ pc = "process"
    /\ IF ~process
       THEN /\ pc' = "done"
            /\ UNCHANGED <<err, xx, im_rot, warned>>
       ELSE /\ im_rot' = ReloadAndRotate(im_rot, angle, angle /= 0)
            /\ IF xx = Unbound
               THEN /\ Raise("UnboundLocalError")
                    /\ UNCHANGED <<xx, warned>>
               ELSE /\ xx' = FixParity(xx)
                    /\ warned' = (Len(xx) % 2 /= 0)
                    /\ pc' = IF accurate_naming THEN "trim" ELSE "seqnames"
                    /\ UNCHANGED err
    /\ UNCHANGED <<process, proccess, indY, mean_Z, n_mice_detected, angle,
                   counter, offset_i, scans, rotations, retained, mid_xx,
                   scan_counts>>
    /\ UNCHANGED <<inputVars, namingVars, maskVars, x, loop_i, written, out>>

(***************************************************************************)
(* Naming with accurate_naming (lines 227-307).                            *)
(***************************************************************************)
\* lines 233-234: the subjects missing on the left of first edge fe
MissingLeft(fe) ==
    IF fe > min_first_edge
    THEN RoundDiv(fe - min_first_edge, min_size_x * 2) ELSE 0

\* lines 245-246: the subjects missing on the right of last edge le
MissingRight(le) ==
    IF le < min_last_edge
    THEN RoundDiv(min_last_edge - le, min_size_x * 2) ELSE 0

\* mutant of LeftNames: the names are taken from the right end of the roster
LeftNamesFromRight(k) == [m \in 1..k |-> MOUSE_NAMES[Len(MOUSE_NAMES) + 1 - m]]

\* lines 241-242: image_names[m] for m in range(k), on the full roster
LeftNames(k) == [m \in 1..k |-> MOUSE_NAMES[m]]

\* lines 253-254: image_names[-1-m] for m in range(k), on the full roster
RightNames(k) == [m \in 1..k |-> MOUSE_NAMES[Len(MOUSE_NAMES) + 1 - m]]

\* lines 227-258: the roster is trimmed at both ends
TrimEdges ==
    /\ pc = "trim"
    /\ IF Len(xx) = 0
       THEN /\ Raise("IndexError")
            /\ UNCHANGED namingVars
       ELSE LET first_edge == xx[1]
                last_edge == xx[Len(xx)]
                missing_left == MissingLeft(first_edge)
                missing_right == MissingRight(last_edge)
                remove == (IF missing_left > 0 THEN LeftNames(missing_left)
                           ELSE <<>>)
                          \o (IF missing_right > 0 THEN RightNames(missing_right)
                              ELSE <<>>)
            IN  IF missing_left > Len(MOUSE_NAMES)
                   \/ missing_right > Len(MOUSE_NAMES)
                THEN /\ Raise("IndexError")
                     /\ UNCHANGED namingVars
                ELSE IF ~CanRemoveAll(MOUSE_NAMES, remove)
                THEN /\ Raise("ValueError")
                     /\ UNCHANGED namingVars
                ELSE /\ image_names' = RemoveAll(MOUSE_NAMES, remove)
                     /\ names2remove' = remove
                     /\ hole_found' = (IF missing_left > 0 THEN missing_left ELSE 0)
                                      + (IF missing_right > 0 THEN missing_right
                                         ELSE 0)
                     /\ missing_at_edge' = (missing_left > 0 \/ missing_right > 0)
                     /\ pc' = "ambiguous"
                     /\ UNCHANGED <<err, mouse_distances>>
    /\ UNCHANGED <<loopVars, inputVars, maskVars, x, loop_i, written, out>>

\* line 259: (last_edge - first_edge) < 6*min_size_x + 5*(min_size_x/1.3),
\* in thirteenths (no min_size_x of the model is a multiple of 13, where the
\* float quotient could differ from the exact one)
SpanTooShort(fe, le) == 13 * (le - fe) < 128 * min_size_x

\* lines 264-269: the end that loses its name
AmbiguousName(fe, le) ==
    IF (fe - min_first_edge) >= min_last_edge - le
    THEN "mouse_01" ELSE "mouse_06"

\* lines 259-271: one missing subject at an unidentified end
AmbiguousEnd ==
    /\ pc = "ambiguous"
    /\ LET first_edge == xx[1]
           last_edge == xx[Len(xx)]
       IN  IF SpanTooShort(first_edge, last_edge) /\ ~missing_at_edge
           THEN /\ image_names' =
                       RemoveFirst(image_names, AmbiguousName(first_edge, last_edge))
                /\ hole_found' = hole_found + 1
           ELSE UNCHANGED <<image_names, hole_found>>
    /\ mouse_distances' = <<>>
    /\ loop_i' = 0
    /\ pc' = "holes"
    /\ UNCHANGED <<err, names2remove, missing_at_edge>>
    /\ UNCHANGED <<loopVars, inputVars, maskVars, x, written, out>>

\* the iterations of range(1, len(xx)-1, 2) (line 273)
HoleIterations(edges) == IF Len(edges) >= 2 THEN (Len(edges) - 1) \div 2 ELSE 0

\* line 277: int(np.round(distance / (min_size_x * 1.5)))
HoleDimension(distance) == RoundDiv(2 * distance, 3 * min_size_x)

\* lines 273-291: one iteration of the loop over adjacent detected subjects
HoleStep ==
    /\ pc = "holes"
    /\ loop_i < HoleIterations(xx)
    /\ LET i == loop_i
           distance == xx[2 * i + 3] - xx[2 * i + 2]
           hole_dimension == HoleDimension(distance)
           remove == [m \in 1..(hole_dimension - 1) |-> image_names[i + m + 1]]
       IN  IF i >= Len(image_names)
           THEN /\ Raise("IndexError")
                /\ UNCHANGED <<namingVars, loop_i>>
           ELSE IF hole_dimension >= 2 /\ i + hole_dimension - 1 >= Len(image_names)
           THEN /\ Raise("IndexError")
                /\ UNCHANGED <<namingVars, loop_i>>
           ELSE /\ mouse_distances' = Append(mouse_distances, distance)
                /\ IF hole_dimension >= 2
                   THEN /\ names2remove' = remove
                        /\ image_names' = RemoveAll(image_names, remove)
                        /\ hole_found' = hole_found + 1
                   ELSE UNCHANGED <<names2remove, image_names, hole_found>>
                /\ loop_i' = loop_i + 1
                /\ UNCHANGED <<pc, err, missing_at_edge>>
    /\ UNCHANGED <<loopVars, inputVars, maskVars, x, written, out>>

\* np.where(a == np.max(a))[0][0], as a 1-based position
FirstMax(md) ==
    CHOOSE k \in 1..Len(md) :
        /\ \A j \in 1..Len(md) : md[j] <= md[k]
        /\ \A j \in 1..(k - 1) : md[j] < md[k]

RECURSIVE ShortfallPicks(_, _, _, _)
\* lines 301-305: n more iterations of the loop that picks the names to
\* remove; the result carries the exception that ends it, if any
ShortfallPicks(names, md, n, acc) ==
    IF n <= 0 THEN [err |-> "none", remove |-> acc]
    ELSE IF Len(md) = 0 THEN [err |-> "ValueError", remove |-> acc]
    ELSE LET max_distance == FirstMax(md)
         IN  IF max_distance + 1 > Len(names)
             THEN [err |-> "IndexError", remove |-> acc]
             ELSE ShortfallPicks(names, [md EXCEPT ![max_distance] = 0], n - 1,
                                 Append(acc, names[max_distance + 1]))

\* lines 292-307: the names still to remove go to the largest gaps
Shortfall ==
    /\ pc = "holes"
    /\ loop_i >= HoleIterations(xx)
    /\ LET detected == Len(xx) \div 2
           still_missing == BATCH_SIZE - (hole_found + detected)
           picks == ShortfallPicks(image_names, mouse_distances, still_missing, <<>>)
       IN  IF hole_found + detected = BATCH_SIZE
           THEN /\ pc' = "crop"
                /\ UNCHANGED <<err, image_names, names2remove>>
           ELSE IF picks.err /= "none"
           THEN /\ Raise(picks.err)
                /\ UNCHANGED <<image_names, names2remove>>
           ELSE IF ~CanRemoveAll(image_names, picks.remove)
           THEN /\ Raise("ValueError")
                /\ UNCHANGED <<image_names, names2remove>>
           ELSE /\ image_names' = RemoveAll(image_names, picks.remove)
                /\ names2remove' = picks.remove
                /\ pc' = "crop"
                /\ UNCHANGED err
    /\ loop_i' = 0
    /\ UNCHANGED <<hole_found, missing_at_edge, mouse_distances>>
    /\ UNCHANGED <<loopVars, inputVars, maskVars, x, written, out>>

\* 'subject_0{}'.format(k) for the k the model reaches
SUBJECT_NAMES == <<"subject_01", "subject_02", "subject_03", "subject_04",
                   "subject_05", "subject_06", "subject_07", "subject_08",
                   "subject_09">>

\* line 310: sequential names, one per pair of edges
SequentialNames ==
    /\ pc = "seqnames"
    /\ image_names' = [k \in 1..(Len(xx) \div 2) |-> SUBJECT_NAMES[k]]
    /\ loop_i' = 0
    /\ pc' = "crop"
    /\ UNCHANGED <<err, names2remove, hole_found, missing_at_edge, mouse_distances>>
    /\ UNCHANGED <<loopVars, inputVars, maskVars, x, written, out>>

(***************************************************************************)
(* Cropping (lines 312-331).                                               *)
(***************************************************************************)
\* line 315
Y0 == IF indY - min_size_y > 0 THEN indY - min_size_y ELSE 0

\* the bounds of the slice expression of lines 316-317 for edges a, b
SliceBounds(a, b) ==
    [x |-> <<a, b>>,
     y |-> <<Y0, indY>>,
     z |-> <<mean_Z - (min_size_z \div 2), mean_Z + (min_size_z \div 2)>>]

\* lines 314, 319-321: the coordinate record for edges a, b
Coordinates(a, b) ==
    LET mp == (b + a) \div 2
    IN  [x |-> <<mp - (min_size_x \div 2), mp + (min_size_x \div 2)>>,
         y |-> <<Y0, indY>>,
         z |-> <<mean_Z - (min_size_z \div 2), mean_Z + (min_size_z \div 2)>>]

\* lines 312-328: one detected region is cropped and written
CropStep ==
    /\ pc = "crop"
    /\ loop_i < Len(xx) \div 2
    /\ LET a == xx[2 * loop_i + 1]
           b == xx[2 * loop_i + 2]
       IN  IF indY = None
           THEN /\ Raise("TypeError")
                /\ UNCHANGED <<written, out, loop_i>>
           ELSE IF loop_i >= Len(image_names)
           THEN /\ Raise("IndexError")
                /\ UNCHANGED <<written, out, loop_i>>
           ELSE /\ written' = Append(written,
                                     [name |-> image_names[loop_i + 1],
                                      slice |-> SliceBounds(a, b),
                                      coordinates |-> Coordinates(a, b)])
                /\ out' = Append(out, image_names[loop_i + 1])
                /\ loop_i' = loop_i + 1
                /\ UNCHANGED <<pc, err>>
    /\ UNCHANGED <<loopVars, inputVars, namingVars, maskVars, x>>

\* lines 330-331
Return ==
    /\ pc = "crop"
    /\ loop_i >= Len(xx) \div 2
    /\ pc' = "done"
    /\ UNCHANGED <<err, loopVars, inputVars, namingVars, maskVars, x, loop_i,
                   written, out>>

Next ==
    \/ ScanOffset
    \/ Stable
    \/ Rotate
    \/ GiveUp
    \/ LoadAndFixParity
    \/ TrimEdges
    \/ AmbiguousEnd
    \/ HoleStep
    \/ Shortfall
    \/ SequentialNames
    \/ CropStep
    \/ Return

Spec == Init /\ [][Next]_vars

(***************************************************************************)
(* Edge extraction on its own: the slice is the input.                     *)
(***************************************************************************)
InitEdges ==
    /\ pc = "edges"
    /\ err = "none"
    /\ shape = <<EdgeDimX, 7, 42>>
    /\ spacing = <<17, 30, 9>>
    /\ accurate_naming = TRUE
    /\ process = TRUE
    /\ proccess = "Unbound"
    /\ indY = None
    /\ mean_Z = InitialMeanZ(42)
    /\ n_mice_detected = {}
    /\ angle = 0
    /\ counter = 0
    /\ offset_i = 1
    /\ x \in SUBSET (0..(EdgeDimX - 1))
    /\ xx = Unbound
    /\ image_names = <<>>
    /\ names2remove = <<>>
    /\ hole_found = 0
    /\ missing_at_edge = FALSE
    /\ mouse_distances = <<>>
    /\ loop_i = 0
    /\ written = <<>>
    /\ out = <<>>
    /\ scans = 0
    /\ rotations = 0
    /\ retained = FALSE
    /\ mid_xx = Unbound
    /\ scan_counts = n_mice_detected
    /\ im_rot = <<>>
    /\ warned = FALSE
    /\ MaskIdle

\* lines 175-190 applied to the foreground x coordinates held in x
ExtractEdges ==
    /\ pc = "edges"
    /\ IF XAny(x)
       THEN /\ xx' = EdgeList(x)
            /\ n_mice_detected' = n_mice_detected \cup {Len(EdgeList(x)) \div 2}
       ELSE /\ n_mice_detected' = n_mice_detected \cup {0}
            /\ UNCHANGED xx
    /\ pc' = "edges_done"
    /\ UNCHANGED <<err, process, proccess, indY, mean_Z, angle, counter, offset_i,
                   scans, rotations, retained, mid_xx, scan_counts, im_rot,
                   warned>>
    /\ UNCHANGED <<inputVars, namingVars, maskVars, x, loop_i, written, out>>

NextEdges == ExtractEdges

SpecEdges == InitEdges /\ [][NextEdges]_vars

(***************************************************************************)
(* Naming and cropping on their own: the detection loop has ended Stable   *)
(* on its first scan, the five slices showing the same foreground, which   *)
(* reaches the last row (indY = 6).                                        *)
(***************************************************************************)
\* the foreground of the five slices
NamingSlices == {fx \in SUBSET (0..(NamingDimX - 1)) : XAny(fx)}

InitNaming ==
    /\ pc = "process"
    /\ err = "none"
    /\ shape = <<NamingDimX, 7, 42>>
    /\ spacing = <<17, 30, 9>>
    /\ accurate_naming = TRUE
    /\ process = TRUE
    /\ proccess = "Unbound"
    /\ indY = 6
    /\ mean_Z = InitialMeanZ(42)
    /\ \E fx \in NamingSlices : xx = EdgeList(fx)
    /\ n_mice_detected = {Len(xx) \div 2}
    /\ angle = 0
    /\ counter = 0
    /\ offset_i = Len(OFFSETS) + 1
    /\ x = {}
    /\ image_names = <<>>
    /\ names2remove = <<>>
    /\ hole_found = 0
    /\ missing_at_edge = FALSE
    /\ mouse_distances = <<>>
    /\ loop_i = 0
    /\ written = <<>>
    /\ out = <<>>
    /\ scans = 1
    /\ rotations = 0
    /\ retained = TRUE
    /\ mid_xx = xx
    /\ scan_counts = n_mice_detected
    /\ im_rot = <<>>
    /\ warned = FALSE
    /\ MaskIdle

NextNaming ==
    \/ LoadAndFixParity
    \/ TrimEdges
    \/ AmbiguousEnd
    \/ HoleStep
    \/ Shortfall
    \/ CropStep
    \/ Return

SpecNaming == InitNaming /\ [][NextNaming]_vars

(***************************************************************************)
(* Naming and cropping of a batch: the volume holds a bed of six equal     *)
(* slots, equally spaced, some of them occupied by a subject block as wide *)
(* as the slot; the detection loop has ended Stable on its first scan, the *)
(* five slices showing the same blocks, which reach the last row.          *)
(***************************************************************************)
\* the foreground x coordinates of the blocks in the slots occ of a bed whose
\* first slot starts at column s, with slots w wide and g empty columns
\* between two slots
Blocks(s, w, g, occ) ==
    UNION {(s + (k - 1) * (w + g))..(s + (k - 1) * (w + g) + w - 1) : k \in occ}

\* the beds <<s, w, g>> that fit in the volume
Beds == {b \in (0..(BatchDimX - 1)) \X (2..MaxBlockWidth) \X (1..MaxBlockGap) :
            b[1] + 6 * b[2] + 5 * b[3] <= BatchDimX}

InitBatch ==
    /\ pc = "process"
    /\ err = "none"
    /\ shape = <<BatchDimX, 14, 42>>
    /\ spacing = <<8, 10, 9>>
    /\ accurate_naming = TRUE
    /\ process = TRUE
    /\ proccess = "Unbound"
    /\ indY = 13
    /\ mean_Z = InitialMeanZ(42)
    /\ \E b \in Beds, occ \in (SUBSET (1..6)) \ {{}} :
           /\ x = Blocks(b[1], b[2], b[3], occ)
           /\ xx = EdgeList(x)
    /\ n_mice_detected = {Len(xx) \div 2}
    /\ angle = 0
    /\ counter = 0
    /\ offset_i = Len(OFFSETS) + 1
    /\ image_names = <<>>
    /\ names2remove = <<>>
    /\ hole_found = 0
    /\ missing_at_edge = FALSE
    /\ mouse_distances = <<>>
    /\ loop_i = 0
    /\ written = <<>>
    /\ out = <<>>
    /\ scans = 1
    /\ rotations = 0
    /\ retained = TRUE
    /\ mid_xx = xx
    /\ scan_counts = n_mice_detected
    /\ im_rot = <<>>
    /\ warned = FALSE
    /\ MaskIdle

NextBatch ==
    \/ LoadAndFixParity
    \/ TrimEdges
    \/ AmbiguousEnd
    \/ HoleStep
    \/ Shortfall
    \/ CropStep
    \/ Return

SpecBatch == InitBatch /\ [][NextBatch]_vars

(***************************************************************************)
(* crop_with_mask (lines 48-104).  The image is a .nrrd or .nii.gz file on *)
(* the grid of the mask.  The mask is given by the voxels where it is 1    *)
(* and by its extreme values.                                              *)
(***************************************************************************)
Voxels == (0..(MaskDim - 1)) \X (0..(MaskDim - 1)) \X (0..(MaskDim - 1))

\* two voxels realise every bounding box
MaskOnesChoices == {{}} \cup {{v, w} : v \in Voxels, w \in Voxels}

\* the values of the voxels that are not 1: below 0, 0, above 1
OtherValues == {-1, 0, 2}

MaskSpacings == {<<20, 10, 5>>, <<5, 20, 10>>, <<10, 5, 20>>}

InitMask ==
    /\ pc = "mask"
    /\ err = "none"
    /\ shape = <<MaskDim, MaskDim, MaskDim>>
    /\ spacing \in MaskSpacings
    /\ maskOnes \in MaskOnesChoices
    /\ \E others \in (SUBSET OtherValues) \ {{}} :
          LET values == others \cup (IF maskOnes = {} THEN {} ELSE {1})
          IN  /\ maskMax = SetMax(values)
              /\ maskMin = SetMin(values)
    /\ imageOutname = "image_cropped"
    /\ maskOutname = "mask_cropped"
    /\ maskFiles = {}
    /\ accurate_naming = TRUE
    /\ process = TRUE
    /\ proccess = "Unbound"
    /\ indY = None
    /\ mean_Z = 0
    /\ n_mice_detected = {}
    /\ angle = 0
    /\ counter = 0
    /\ offset_i = 1
    /\ x = {}
    /\ xx = Unbound
    /\ image_names = <<>>
    /\ names2remove = <<>>
    /\ hole_found = 0
    /\ missing_at_edge = FALSE
    /\ mouse_distances = <<>>
    /\ loop_i = 0
    /\ written = <<>>
    /\ out = <<>>
    /\ scans = 0
    /\ rotations = 0
    /\ retained = FALSE
    /\ mid_xx = Unbound
    /\ scan_counts = n_mice_detected
    /\ im_rot = <<>>
    /\ warned = FALSE

\* lines 63-65: int(10 / space) for axis a
Delta(a) == MASK_MARGIN_MM \div spacing[a]

\* mutant of NotBinary: one bound violated is enough to reject
NotBinaryEither(mx, mn) == mx > 1 \/ mn < 0

\* line 71
NotBinary(mx, mn) == mx > 1 /\ mn < 0

\* lines 77-79 (81-83, 85-87): the bounds for axis a, whose mask == 1
\* indices are idx
NewBounds(idx, a) ==
    LET lo == SetMin(idx) - Delta(a)
        hi == SetMax(idx) + Delta(a)
    IN  <<IF lo < 0 THEN 0 ELSE lo, IF hi > shape[a] THEN shape[a] ELSE hi>>

\* the indices along axis a of the voxels of ones
AxisIndices(ones, a) == {v[a] : v \in ones}

\* lines 71-75: the mask is rejected
MaskReject ==
    /\ pc = "mask"
    /\ NotBinary(maskMax, maskMin)
    /\ imageOutname' = NoName
    /\ maskOutname' = NoName
    /\ pc' = "mask_return"
    /\ UNCHANGED <<err, maskOnes, maskMax, maskMin, maskFiles>>
    /\ UNCHANGED <<loopVars, inputVars, namingVars, x, loop_i, written, out>>

\* lines 76-101: both volumes are sliced and written
MaskCrop ==
    /\ pc = "mask"
    /\ ~NotBinary(maskMax, maskMin)
    /\ IF maskOnes = {}
       THEN /\ Raise("ValueError")
            /\ UNCHANGED maskFiles
       ELSE LET bounds == [a \in 1..3 |-> NewBounds(AxisIndices(maskOnes, a), a)]
            IN  /\ maskFiles' = {[file |-> imageOutname, bounds |-> bounds],
                                 [file |-> maskOutname, bounds |-> bounds]}
                /\ pc' = "mask_return"
                /\ UNCHANGED err
    /\ UNCHANGED <<maskOnes, maskMax, maskMin, imageOutname, maskOutname>>
    /\ UNCHANGED <<loopVars, inputVars, namingVars, x, loop_i, written, out>>

\* lines 103-104
MaskReturn ==
    /\ pc = "mask_return"
    /\ pc' = "mask_done"
    /\ UNCHANGED <<err, maskVars, loopVars, inputVars, namingVars, x, loop_i,
                   written, out>>

NextMask == MaskReject \/ MaskCrop \/ MaskReturn

SpecMask == InitMask /\ [][NextMask]_vars

(***************************************************************************)
(* The claims.                                                             *)
(***************************************************************************)

\* the steps the loop can still take: 6 per scan still allowed (5 slices and
\* the test of line 191), less those of the current scan already taken
C1_StepsLeft == (8 - counter) * 6 + (6 - offset_i)

\* C1: in crop_wo_mask the retry counter starts at 0, never decreases and
\* never exceeds 8; there are at most 8 rotations and 9 scans; and the
\* orientation-correction loop terminates whatever the scans report: every
\* step that stays in the loop uses up one of a finite number of steps left.
C1_LoopTerminates ==
    /\ counter = 0
    /\ [](/\ counter \in 0..8
          /\ rotations = counter
          /\ scans <= 9
          /\ (pc = "scan" => scans = counter /\ C1_StepsLeft >= 0))
    /\ [][/\ counter' >= counter
          /\ (pc = "scan" /\ pc' = "scan" => C1_StepsLeft' < C1_StepsLeft)]_vars

\* C1 witness: the loop was left after the eighth rotation and ninth scan
C1_BudgetSpent ==
    /\ pc = "process"
    /\ counter = 8
    /\ rotations = 8
    /\ scans = 9
    /\ proccess = "False"

\* C2: once the retry budget is exhausted with the counts still
\* inconsistent (lines 206-211 were executed), crop_wo_mask writes no file and
\* returns an empty list.
C2_FailedEmitsNothing ==
    proccess = "False" => written = <<>> /\ out = <<>>

\* the detected regions of an edge list
Regions(edges) == Len(edges) \div 2

\* C3: with accurate naming, once reconciliation has run on an edge list
\* of 1 to 6 detected regions, the roster holds exactly one name per region.
C3_NamesMatchRegions ==
    (pc = "crop" /\ accurate_naming /\ Regions(xx) \in 1..6)
        => Len(image_names) = Regions(xx)

\* C4: with accurate naming and at most 6 detected regions, the names
\* removed from the 6-name roster over all reconciliation steps number 6
\* minus the detected regions.
C4_RemovedIsShortfall ==
    (pc = "crop" /\ accurate_naming /\ Regions(xx) <= 6)
        => Len(MOUSE_NAMES) - Len(image_names) = 6 - Regions(xx)

\* C5: reconciliation and naming never raise: no index out of range, no
\* removal of an absent name, no maximum of an empty gap list, and a name for
\* every region written.
C5_NoHardFailure ==
    pc /= "raised" /\ err \notin {"IndexError", "ValueError"}

\* lo <= hi within an axis of the given size
InAxis(bounds, size) == 0 <= bounds[1] /\ bounds[1] <= bounds[2] /\ bounds[2] <= size

\* C6: in crop_with_mask the range [lo, hi) sliced on each axis holds the
\* index of every mask == 1 voxel and lies within the axis, for every
\* margin delta >= 0.
C6_BoxHoldsMask ==
    \A f \in maskFiles : \A a \in 1..3 :
        /\ InAxis(f.bounds[a], shape[a])
        /\ \A v \in maskOnes : f.bounds[a][1] <= v[a] /\ v[a] < f.bounds[a][2]

\* C7: crop_with_mask returns (None, None) and writes nothing when the mask
\* maximum is above 1 and its minimum below 0; in every other case with a
\* mask == 1 voxel it writes both files and returns both names.
C7_MaskOutcome ==
    IF maskMax > 1 /\ maskMin < 0
    THEN /\ maskFiles = {}
         /\ pc /= "raised"
         /\ pc = "mask_done" => imageOutname = NoName /\ maskOutname = NoName
    ELSE maskOnes /= {} =>
         /\ pc /= "raised"
         /\ imageOutname /= NoName /\ maskOutname /= NoName
         /\ pc = "mask_done" =>
                {f.file : f \in maskFiles} = {imageOutname, maskOutname}

\* C7 witness: a mask with values above 1 and below 0 (and voxels equal to
\* 1) was rejected and the call has returned
C7_Rejected ==
    /\ pc = "mask_done"
    /\ maskMax > 1 /\ maskMin < 0
    /\ maskOnes /= {}
    /\ imageOutname = NoName /\ maskOutname = NoName

\* the first coordinates of the maximal runs of S
RunStarts(S) == {e \in S : e - 1 \notin S}

\* the last coordinates of the maximal runs of S
RunEnds(S) == {e \in S : e + 1 \notin S}

\* the width of the narrowest run of a non-empty S
MinRunWidth(S) ==
    SetMin({SetMin({e \in RunEnds(S) : e >= b}) - b + 1 : b \in RunStarts(S)})

\* the edge list and count are those of the runs of S: 2k entries, strictly
\* increasing, the j-th pair being the first and last coordinate of run j
EdgesOfRuns(S) ==
    LET starts == Sorted(RunStarts(S))
        ends == Sorted(RunEnds(S))
        k == Len(starts)
    IN  /\ Len(xx) = 2 * k
        /\ \A n \in 1..(2 * k - 1) : xx[n] < xx[n + 1]
        /\ \A j \in 1..k : xx[2 * j - 1] = starts[j] /\ xx[2 * j] = ends[j]
        /\ n_mice_detected = {k}

\* C8 (as claimed): for every non-empty foreground set of k runs, of any
\* width >= 1 and at any position, the edge list is the 2k run bounds and the
\* count is k.
C8_AnyRunWidth ==
    (pc = "edges_done" /\ x /= {}) => EdgesOfRuns(x)

\* C8 (amended): the same for every non-empty foreground set whose runs are
\* all at least 2 wide.
C8_WideRuns ==
    (pc = "edges_done" /\ x /= {} /\ MinRunWidth(x) >= 2) => EdgesOfRuns(x)

\* C8 witness: three separated runs, one of them starting at x = 0, were
\* extracted as six edges
C8_ThreeRuns ==
    /\ pc = "edges_done"
    /\ Cardinality(RunStarts(x)) = 3
    /\ 0 \in x
    /\ MinRunWidth(x) >= 2
    /\ Len(xx) = 6

C10_EmptyVolumeReturnsEmpty ==
    (offset_i > Len(OFFSETS) /\ ~retained /\ pc /= "scan")
        => /\ n_mice_detected = {0}
           /\ proccess /= "False"
           /\ pc /= "raised"
           /\ written = <<>> /\ out = <<>>

\* the names of the files written, in order
WrittenNames == [k \in 1..Len(written) |-> written[k].name]

\* five regions, a left gap of one subject, no right gap and no hole
C11_Case ==
    /\ accurate_naming
    /\ Len(xx) = 10
    /\ MissingLeft(xx[1]) = 1
    /\ MissingRight(xx[10]) = 0
    /\ \A j \in 1..4 : HoleDimension(xx[2 * j + 1] - xx[2 * j]) < 2

\* C11: with accurate naming, when 5 regions are detected, the left-gap
\* count rounds to 1, there is no right-edge gap and no gap counts as a hole,
\* nothing is raised and the call writes and returns exactly mouse_02,
\* mouse_03, mouse_04, mouse_05, mouse_06, in that order.
C11_LeftTrimmedByOne ==
    (pc /= "process" /\ C11_Case) =>
        /\ pc /= "raised"
        /\ pc \in {"crop", "done"} => image_names = SubSeq(MOUSE_NAMES, 2, 6)
        /\ WrittenNames = SubSeq(image_names, 1, Len(written))
        /\ out = WrittenNames
        /\ pc = "done" => Len(written) = 5

\* C11 witness: the call has returned after writing the five files of such
\* an edge list
C11_FiveWritten ==
    /\ pc = "done"
    /\ C11_Case
    /\ out = SubSeq(MOUSE_NAMES, 2, 6)

\* six regions of one size, equally spaced and separate
C12_Case ==
    /\ accurate_naming
    /\ Len(xx) = 12
    /\ \A j \in 1..6 : xx[2 * j] - xx[2 * j - 1] = xx[2] - xx[1]
    /\ \A j \in 1..5 : xx[2 * j + 1] - xx[2 * j] = xx[3] - xx[2]
    /\ xx[2] - xx[1] >= 1
    /\ xx[3] - xx[2] >= 2

\* the ranges are pairwise disjoint and increasing
IncreasingRanges(r) ==
    \A k \in 1..(Len(r) - 1) : r[k][1] <= r[k][2] /\ r[k][2] <= r[k + 1][1]

\* C12: with accurate naming and no rotation, whenever 6 equally spaced
\* regions of one size are detected, whatever their width and spacing,
\* nothing is raised and the call writes six subjects named mouse_01 to
\* mouse_06 from left to right, with increasing, non-overlapping x ranges.
C12_SixNamed ==
    (pc /= "process" /\ C12_Case) =>
        /\ pc /= "raised"
        /\ pc \in {"crop", "done"} => image_names = MOUSE_NAMES
        /\ WrittenNames = SubSeq(MOUSE_NAMES, 1, Len(written))
        /\ IncreasingRanges([k \in 1..Len(written) |-> written[k].slice.x])
        /\ pc = "done" => Len(written) = 6

\* C13: the edge list from which the subjects are named and cropped is the
\* one detected on the middle slice (offset 0) of the final scan, up to the
\* parity recovery, not the edge list of another depth offset.
C13_EdgesOfMiddleSlice ==
    pc \in {"trim", "seqnames", "ambiguous", "holes", "crop"} =>
        /\ mid_xx /= Unbound
        /\ xx = FixParity(mid_xx)

\* C14: a scan ends Stable exactly when the counts recorded at the five
\* offsets of that scan alone (the counts of earlier scans having been
\* discarded at the rotation) form a set of one value, or of two values one
\* of which is 0; otherwise the loop rotates if the counter is below 8 and
\* fails if it is not.
C14_ScanOutcome ==
    /\ []((pc = "scan" /\ offset_i > 1) => n_mice_detected = scan_counts)
    /\ [][(pc = "scan" /\ offset_i > Len(OFFSETS)) =>
            IF Consistent(scan_counts)
            THEN pc' = "process" /\ proccess' = proccess /\ counter' = counter
            ELSE IF counter < MAX_RETRIES
            THEN /\ pc' = "scan" /\ offset_i' = 1
                 /\ counter' = counter + 1 /\ rotations' = rotations + 1
                 /\ proccess' = proccess
            ELSE pc' = "process" /\ proccess' = "False"]_vars

\* C14 witness: after a rotation, a scan whose counts are one value and a
\* tolerated zero has ended Stable
C14_StableAfterRotation ==
    /\ pc = "process"
    /\ counter >= 1
    /\ proccess = "Unbound"
    /\ scan_counts = {0, 2}

\* C15: at every point of the detection loop, with retry counter k in 0..8,
\* the angle is -2k (never beyond 16 degrees), the volume scanned is the file
\* volume rotated once by that angle (not at all while k = 0) and the
\* mid-depth index is ceil(dimZ / 2) - 10 * floor(k / 2); the volume cropped
\* is the file volume rotated once by the final angle.
C15_AngleAndDepth ==
    /\ pc = "scan" =>
           /\ counter \in 0..MAX_RETRIES
           /\ angle = -(ANGLE_STEP * counter)
           /\ -angle <= 16
           /\ im_rot = (IF counter = 0 THEN <<>> ELSE <<angle>>)
           /\ mean_Z = InitialMeanZ(dimZ) - MEAN_Z_SHIFT * (counter \div 2)
    /\ pc \in {"trim", "seqnames", "ambiguous", "holes", "crop"} =>
           /\ angle = -(ANGLE_STEP * counter)
           /\ im_rot = (IF angle = 0 THEN <<>> ELSE <<angle>>)

\* C15 witness: the scan after the fourth rotation is under way
C15_FourthRetry ==
    /\ pc = "scan"
    /\ counter = 4
    /\ offset_i = 3
    /\ angle = -8
    /\ im_rot = <<-8>>
    /\ mean_Z = InitialMeanZ(dimZ) - 20

\* the steps after the parity recovery
C16_Later == {"trim", "seqnames", "ambiguous", "holes", "crop", "done"}

\* C16: an edge list of odd length handed to the naming loses exactly its
\* last, largest boundary, with a warning, before anything is named or
\* cropped, the other boundaries keeping value and order; a list of even
\* length is passed unchanged, without warning; every later step sees that
\* list, of even length.
C16_ParityRecovery ==
    /\ []((pc = "process" /\ xx /= Unbound) =>
             /\ \A k \in 1..(Len(xx) - 1) : xx[k] < xx[k + 1]
             /\ image_names = <<>> /\ written = <<>> /\ ~warned)
    /\ []((pc \in C16_Later /\ process) => Len(xx) % 2 = 0)
    /\ [][/\ (pc = "process" /\ pc' \in C16_Later /\ process) =>
               IF Len(xx) % 2 /= 0
               THEN xx' = SubSeq(xx, 1, Len(xx) - 1) /\ warned'
               ELSE xx' = xx /\ ~warned'
           /\ pc \in C16_Later => xx' = xx /\ warned' = warned]_vars

\* C16 witness: an edge list of five boundaries lost its last one, and its
\* two regions were cropped
C16_OddListCropped ==
    /\ pc = "done"
    /\ warned
    /\ Len(xx) = 4
    /\ Len(written) = 2

\* C17: for every region cropped, the x range that slices the volume is the
\* midpoint of its two edges plus and minus half the minimum subject size,
\* the range written to the coordinate record; the recorded y and z ranges
\* are the ones that slice the volume too.
C17_SliceIsRecord ==
    \A k \in 1..Len(written) :
        /\ written[k].slice.x = written[k].coordinates.x
        /\ written[k].slice.y = written[k].coordinates.y
        /\ written[k].slice.z = written[k].coordinates.z

\* the largest gap of md outside chosen, the leftmost one on ties
C18_LargestGap(md, chosen) ==
    CHOOSE g \in (1..Len(md)) \ chosen :
        \A h \in (1..Len(md)) \ chosen :
            md[h] < md[g] \/ (md[h] = md[g] /\ h >= g)

RECURSIVE C18_Targets(_, _, _, _)
\* the names right of the n largest gaps of md, no gap taken twice
C18_Targets(names, md, chosen, n) ==
    IF n = 0 THEN <<>>
    ELSE LET g == C18_LargestGap(md, chosen)
         IN  <<names[g + 1]>> \o C18_Targets(names, md, chosen \cup {g}, n - 1)

\* the names still missing when the hole loop has ended
C18_StillMissing == BATCH_SIZE - (hole_found + Len(xx) \div 2)

\* C18: in the shortfall step (detected plus inferred-missing below 6) the
\* names removed are those next to the largest remaining gaps, the leftmost
\* on ties, no gap being chosen twice, and they number the shortfall; in the
\* ambiguous-end step the end with the larger gap to the image margin loses
\* its name, the left end on ties.
C18_TieBreaks ==
    [][/\ (/\ pc = "holes"
           /\ loop_i >= HoleIterations(xx)
           /\ C18_StillMissing > 0) =>
              /\ pc' = "crop"
              /\ C18_StillMissing <= Len(mouse_distances)
              /\ names2remove' =
                     C18_Targets(image_names, mouse_distances, {}, C18_StillMissing)
              /\ Len(image_names') = Len(image_names) - C18_StillMissing
              /\ image_names' = RemoveAll(image_names, names2remove')
       /\ (/\ pc = "ambiguous"
           /\ SpanTooShort(xx[1], xx[Len(xx)])
           /\ ~missing_at_edge) =>
              image_names' =
                 IF xx[1] >= dimX - xx[Len(xx)]
                 THEN Tail(image_names)
                 ELSE SubSeq(image_names, 1, Len(image_names) - 1)]_vars

\* C19: whenever the detection loop has ended and the cropping starts with at
\* least one detected region, indY holds a voxel index: it is not unset,
\* also when the slice at offset 0 had no foreground while others had, and
\* after a rotation has reset it.
C19_IndYSet ==
    (pc = "crop" /\ Len(xx) >= 2) => indY /= None /\ indY \in 0..dimY

\* C20: for every depth dimZ and every retry count 0 to 8, each depth index
\* indexed by the detection loop (read, or refused by the array), the
\* mid-depth index plus an offset of 20, 10, 0, -10, -15, lies in
\* 0..dimZ-1: none is past the last slice and none is negative.
C20_DepthInVolume ==
    pc \in {"scan", "raised"} =>
        \A j \in 1..Len(OFFSETS) :
            (j < offset_i \/ (j = offset_i /\ pc = "raised")) =>
                0 <= mean_Z + OFFSETS[j] /\ mean_Z + OFFSETS[j] < dimZ

====
